---- MODULE Spec2Model ----
(***************************************************************************)
(* A model of app.py, the multi-calendar event manager.                    *)
(*                                                                         *)
(* Python strings are sequences of one-character strings, so that the      *)
(* string operations of the code (substring tests, replace, lower, strip,  *)
(* comparison, the e-mail regular expression, isoformat/fromisoformat) are *)
(* computed as the code computes them.  Values of a parsed JSON document   *)
(* carry a type tag: [t |-> "str" | "num" | "null" | "dict" | "list",      *)
(* v |-> the value].                                                       *)
(***************************************************************************)
EXTENDS Naturals, Integers, Sequences, FiniteSets, TLC

(***************************************************************************)
(* Python str                                                              *)
(***************************************************************************)

Lowercase ==
  << "a","b","c","d","e","f","g","h","i","j","k","l","m",
     "n","o","p","q","r","s","t","u","v","w","x","y","z" >>

Uppercase ==
  << "A","B","C","D","E","F","G","H","I","J","K","L","M",
     "N","O","P","Q","R","S","T","U","V","W","X","Y","Z" >>

Digits == << "0","1","2","3","4","5","6","7","8","9" >>

\* The characters that occur in the model's strings, in code-point order.
CodePoints ==
  << " ", "#", "%", "+", "-", ".", "/" >>
  \o Digits \o << ":", "@" >>
  \o Uppercase \o << "_" >>
  \o Lowercase

IndexOf(c, seq) == CHOOSE i \in 1..Len(seq) : seq[i] = c

IsIn(c, seq) == \E i \in 1..Len(seq) : seq[i] = c

\* ord(c), up to an order-preserving renumbering; control characters sort first.
Ord(c) == IF IsIn(c, CodePoints) THEN IndexOf(c, CodePoints) ELSE 0

IsAlpha(c) == IsIn(c, Lowercase) \/ IsIn(c, Uppercase)

IsDigit(c) == IsIn(c, Digits)

IsAlnum(c) == IsAlpha(c) \/ IsDigit(c)

\* sub in s
Contains(sub, s) ==
  \E i \in 0..(Len(s) - Len(sub)) : \A j \in 1..Len(sub) : s[i + j] = sub[j]

StartsWith(s, p) == Len(s) >= Len(p) /\ \A j \in 1..Len(p) : s[j] = p[j]

Tail_n(s, n) == SubSeq(s, n + 1, Len(s))

\* s.replace(old, new), old non-empty: leftmost non-overlapping occurrences.
RECURSIVE Replace(_, _, _)
Replace(s, old, new) ==
  IF s = << >> THEN << >>
  ELSE IF StartsWith(s, old) THEN new \o Replace(Tail_n(s, Len(old)), old, new)
  ELSE << Head(s) >> \o Replace(Tail(s), old, new)

LowerChar(c) == IF IsIn(c, Uppercase) THEN Lowercase[IndexOf(c, Uppercase)] ELSE c

\* s.lower()
Lower(s) == [i \in 1..Len(s) |-> LowerChar(s[i])]

IsSpace(c) == c \in {" ", "\t", "\n", "\r"}

RECURSIVE LStrip(_)
LStrip(s) == IF s # << >> /\ IsSpace(Head(s)) THEN LStrip(Tail(s)) ELSE s

RECURSIVE RStrip(_)
RStrip(s) ==
  IF s # << >> /\ IsSpace(s[Len(s)]) THEN RStrip(SubSeq(s, 1, Len(s) - 1)) ELSE s

\* s.strip()
Strip(s) == RStrip(LStrip(s))

\* a < b on str: lexicographic by code point, a proper prefix is smaller.
RECURSIVE StrLess(_, _)
StrLess(a, b) ==
  IF b = << >> THEN FALSE
  ELSE IF a = << >> THEN TRUE
  ELSE IF Head(a) = Head(b) THEN StrLess(Tail(a), Tail(b))
  ELSE Ord(Head(a)) < Ord(Head(b))

\* a <= b on str
StrLeq(a, b) == a = b \/ StrLess(a, b)

\* Decimal digits of n, zero-padded to w places (the %0wd of isoformat).
RECURSIVE Pad(_, _)
Pad(n, w) == IF w = 0 THEN << >> ELSE Pad(n \div 10, w - 1) \o << Digits[(n % 10) + 1] >>

AllDigits(s) == \A i \in 1..Len(s) : IsDigit(s[i])

\* int(s) for a string of decimal digits.
RECURSIVE ToInt(_)
ToInt(s) ==
  IF s = << >> THEN 0
  ELSE 10 * ToInt(SubSeq(s, 1, Len(s) - 1)) + (IndexOf(s[Len(s)], Digits) - 1)

(***************************************************************************)
(* datetime                                                                *)
(*                                                                         *)
(* A datetime is [y, m, d, h, mi, s, us, tz]; tz is << >> for a naive      *)
(* value and the offset text (+HH:MM) for an aware one.  A date is         *)
(* [y, m, d], a time is [h, mi, s, us].                                    *)
(***************************************************************************)

IsLeap(y) == (y % 4 = 0 /\ y % 100 # 0) \/ y % 400 = 0

DaysInMonth(y, m) ==
  IF m = 2 THEN (IF IsLeap(y) THEN 29 ELSE 28)
  ELSE IF m \in {4, 6, 9, 11} THEN 30 ELSE 31

\* datetime.combine(date, time)
Combine(date, time) ==
  [y |-> date.y, m |-> date.m, d |-> date.d,
   h |-> time.h, mi |-> time.mi, s |-> time.s, us |-> time.us, tz |-> << >>]

\* datetime.isoformat(): the fraction only when microsecond # 0, the offset
\* only for an aware value.
IsoFormat(dt) ==
  Pad(dt.y, 4) \o << "-" >> \o Pad(dt.m, 2) \o << "-" >> \o Pad(dt.d, 2)
  \o << "T" >> \o Pad(dt.h, 2) \o << ":" >> \o Pad(dt.mi, 2) \o << ":" >> \o Pad(dt.s, 2)
  \o (IF dt.us # 0 THEN << "." >> \o Pad(dt.us, 6) ELSE << >>)
  \o dt.tz

\* dt + timedelta(hours=1)
AddHour(dt) ==
  IF dt.h < 23 THEN [dt EXCEPT !.h = dt.h + 1]
  ELSE IF dt.d < DaysInMonth(dt.y, dt.m) THEN [dt EXCEPT !.h = 0, !.d = dt.d + 1]
  ELSE IF dt.m < 12 THEN [dt EXCEPT !.h = 0, !.d = 1, !.m = dt.m + 1]
  ELSE [dt EXCEPT !.h = 0, !.d = 1, !.m = 1, !.y = dt.y + 1]

NoDateTime ==
  [y |-> 0, m |-> 0, d |-> 0, h |-> 0, mi |-> 0, s |-> 0, us |-> 0, tz |-> << >>]

\* The date part YYYY-MM-DD of fromisoformat.
IsIsoDate(s) ==
  /\ Len(s) = 10
  /\ AllDigits(SubSeq(s, 1, 4)) /\ s[5] = "-"
  /\ AllDigits(SubSeq(s, 6, 7)) /\ s[8] = "-"
  /\ AllDigits(SubSeq(s, 9, 10))
  /\ ToInt(SubSeq(s, 1, 4)) >= 1
  /\ ToInt(SubSeq(s, 6, 7)) \in 1..12
  /\ ToInt(SubSeq(s, 9, 10)) \in 1..DaysInMonth(ToInt(SubSeq(s, 1, 4)), ToInt(SubSeq(s, 6, 7)))

\* The clock part HH:MM[:SS[.ffffff]] of fromisoformat.
IsIsoClock(s) ==
  /\ Len(s) \in {5, 8, 15}
  /\ AllDigits(SubSeq(s, 1, 2)) /\ s[3] = ":" /\ AllDigits(SubSeq(s, 4, 5))
  /\ ToInt(SubSeq(s, 1, 2)) < 24 /\ ToInt(SubSeq(s, 4, 5)) < 60
  /\ Len(s) >= 8 => (s[6] = ":" /\ AllDigits(SubSeq(s, 7, 8)) /\ ToInt(SubSeq(s, 7, 8)) < 60)
  /\ Len(s) = 15 => (s[9] = "." /\ AllDigits(SubSeq(s, 10, 15)))

\* The offset part +HH:MM or -HH:MM of fromisoformat.
IsIsoOffset(s) ==
  /\ Len(s) = 6
  /\ s[1] \in {"+", "-"}
  /\ AllDigits(SubSeq(s, 2, 3)) /\ s[4] = ":" /\ AllDigits(SubSeq(s, 5, 6))
  /\ ToInt(SubSeq(s, 2, 3)) < 24 /\ ToInt(SubSeq(s, 5, 6)) < 60

\* Where the offset starts in the clock-and-offset text r (Len(r) + 1: none).
OffsetAt(r) ==
  IF \E i \in 1..Len(r) : r[i] \in {"+", "-"}
  THEN CHOOSE i \in 1..Len(r) :
         r[i] \in {"+", "-"} /\ \A j \in 1..(i - 1) : r[j] \notin {"+", "-"}
  ELSE Len(r) + 1

\* datetime.fromisoformat(s): [ok |-> FALSE] stands for ValueError.  The
\* grammar is YYYY-MM-DD[*HH:MM[:SS[.ffffff]][+HH:MM]]; a trailing "Z" is a
\* ValueError (every call in the code replaces "Z" first).
FromIsoFormat(s) ==
  IF Len(s) < 10 \/ ~IsIsoDate(SubSeq(s, 1, 10)) THEN [ok |-> FALSE, dt |-> NoDateTime]
  ELSE
    LET y == ToInt(SubSeq(s, 1, 4))
        m == ToInt(SubSeq(s, 6, 7))
        d == ToInt(SubSeq(s, 9, 10))
    IN IF Len(s) = 10
       THEN [ok |-> TRUE,
             dt |-> [y |-> y, m |-> m, d |-> d, h |-> 0, mi |-> 0, s |-> 0,
                     us |-> 0, tz |-> << >>]]
       ELSE
         LET r     == Tail_n(s, 11)
             p     == OffsetAt(r)
             clock == SubSeq(r, 1, p - 1)
             off   == Tail_n(r, p - 1)
         IN IF ~IsIsoClock(clock) \/ (off # << >> /\ ~IsIsoOffset(off))
            THEN [ok |-> FALSE, dt |-> NoDateTime]
            ELSE [ok |-> TRUE,
                  dt |-> [y |-> y, m |-> m, d |-> d,
                          h  |-> ToInt(SubSeq(clock, 1, 2)),
                          mi |-> ToInt(SubSeq(clock, 4, 5)),
                          s  |-> IF Len(clock) >= 8 THEN ToInt(SubSeq(clock, 7, 8)) ELSE 0,
                          us |-> IF Len(clock) = 15 THEN ToInt(SubSeq(clock, 10, 15)) ELSE 0,
                          tz |-> IF off = << "-", "0", "0", ":", "0", "0" >>
                                 THEN << "+", "0", "0", ":", "0", "0" >> ELSE off]]

\* a < b on two naive datetimes (chronological order).
DateTimeLess(a, b) ==
  LET ka == << a.y, a.m, a.d, a.h, a.mi, a.s, a.us >>
      kb == << b.y, b.m, b.d, b.h, b.mi, b.s, b.us >>
  IN \E i \in 1..7 : ka[i] < kb[i] /\ \A j \in 1..(i - 1) : ka[j] = kb[j]

(***************************************************************************)
(* Values of a parsed JSON document, and the dict operations on them       *)
(***************************************************************************)

JStr(s) == [t |-> "str", v |-> s]

JNum(n) == [t |-> "num", v |-> n]

JNull == [t |-> "null", v |-> << >>]

JDict(d) == [t |-> "dict", v |-> d]

JList(l) == [t |-> "list", v |-> l]

\* The empty dict {}: a function with no key.
EmptyDict == [k \in {} |-> JNull]

\* key in d, for a dict d
HasKey(d, key) == key \in DOMAIN d.v

\* d.get(key, default), for a dict d
Get(d, key, default) == IF key \in DOMAIN d.v THEN d.v[key] ELSE default

\* bool(v)
Truthy(v) ==
  CASE v.t = "null" -> FALSE
    [] v.t = "num"  -> v.v # 0
    [] v.t = "str"  -> v.v # << >>
    [] v.t = "list" -> v.v # << >>
    [] v.t = "dict" -> DOMAIN v.v # {}

\* The decimal digits of a natural number.
RECURSIVE Decimal(_)
Decimal(n) == IF n < 10 THEN << Digits[n + 1] >> ELSE Decimal(n \div 10) \o << Digits[(n % 10) + 1] >>

\* str(v), for a str, a number or None
PyStr(v) ==
  CASE v.t = "str"  -> v.v
    [] v.t = "num"  -> Decimal(v.v)
    [] v.t = "null" -> << "N", "o", "n", "e" >>

(***************************************************************************)
(* Literals of the program                                                 *)
(***************************************************************************)

DefaultEmail == << "e", "n", "t", "r", "e", "m", "o", "t", "i", "v", "a", "t", "o", "r", "@", "g", "m", "a", "i", "l", ".", "c", "o", "m" >>

DefaultCalendarName == << "D", "e", "f", "a", "u", "l", "t", " ", "C", "a", "l", "e", "n", "d", "a", "r" >>

ImportedCalendarName == << "I", "m", "p", "o", "r", "t", "e", "d", " ", "C", "a", "l", "e", "n", "d", "a", "r" >>

UTC == << "U", "T", "C" >>

CalendarKind == << "c", "a", "l", "e", "n", "d", "a", "r", "#", "c", "a", "l", "e", "n", "d", "a", "r" >>

UntitledEvent == << "U", "n", "t", "i", "t", "l", "e", "d", " ", "E", "v", "e", "n", "t" >>

Confirmed == << "c", "o", "n", "f", "i", "r", "m", "e", "d" >>

General == << "g", "e", "n", "e", "r", "a", "l" >>

DefaultColor == << "#", "3", "7", "8", "8", "d", "8" >>

CopySuffix == << " ", "(", "C", "o", "p", "y", ")" >>

StartOfDay == << "T", "0", "0", ":", "0", "0", ":", "0", "0" >>

EndOfDay == << "T", "2", "3", ":", "5", "9", ":", "5", "9" >>

\* color_map of get_color_from_id, in its order.
ColorMap ==
  << 
     [id |-> << "1" >>, hex |-> << "#", "a", "4", "b", "d", "f", "c" >>],
     [id |-> << "2" >>, hex |-> << "#", "7", "a", "e", "7", "b", "f" >>],
     [id |-> << "3" >>, hex |-> << "#", "d", "b", "a", "d", "f", "f" >>],
     [id |-> << "4" >>, hex |-> << "#", "f", "f", "8", "8", "7", "c" >>],
     [id |-> << "5" >>, hex |-> << "#", "f", "b", "d", "7", "5", "b" >>],
     [id |-> << "6" >>, hex |-> << "#", "f", "f", "b", "8", "7", "8" >>],
     [id |-> << "7" >>, hex |-> << "#", "4", "6", "d", "6", "d", "b" >>],
     [id |-> << "8" >>, hex |-> << "#", "e", "1", "e", "1", "e", "1" >>],
     [id |-> << "9" >>, hex |-> << "#", "5", "4", "8", "4", "e", "d" >>],
     [id |-> << "1", "0" >>, hex |-> << "#", "5", "1", "b", "7", "4", "9" >>],
     [id |-> << "1", "1" >>, hex |-> << "#", "d", "c", "2", "1", "2", "7" >>] >>

\* categories of extract_category_from_event, in its (insertion) order.
CategoryKeywords ==
  << 
     [category |-> << "m", "e", "e", "t", "i", "n", "g" >>,
      keywords |-> << << "m", "e", "e", "t", "i", "n", "g" >>,
                    << "c", "a", "l", "l" >>,
                    << "c", "o", "n", "f", "e", "r", "e", "n", "c", "e" >>,
                    << "s", "y", "n", "c" >>,
                    << "s", "t", "a", "n", "d", "u", "p" >> >>],
     [category |-> << "p", "e", "r", "s", "o", "n", "a", "l" >>,
      keywords |-> << << "p", "e", "r", "s", "o", "n", "a", "l" >>,
                    << "a", "p", "p", "o", "i", "n", "t", "m", "e", "n", "t" >>,
                    << "d", "o", "c", "t", "o", "r" >>,
                    << "d", "e", "n", "t", "i", "s", "t" >> >>],
     [category |-> << "w", "o", "r", "k" >>,
      keywords |-> << << "w", "o", "r", "k" >>,
                    << "p", "r", "o", "j", "e", "c", "t" >>,
                    << "d", "e", "a", "d", "l", "i", "n", "e" >>,
                    << "r", "e", "v", "i", "e", "w" >> >>],
     [category |-> << "t", "r", "a", "v", "e", "l" >>,
      keywords |-> << << "f", "l", "i", "g", "h", "t" >>,
                    << "t", "r", "a", "v", "e", "l" >>,
                    << "t", "r", "i", "p" >>,
                    << "v", "a", "c", "a", "t", "i", "o", "n" >> >>],
     [category |-> << "s", "o", "c", "i", "a", "l" >>,
      keywords |-> << << "d", "i", "n", "n", "e", "r" >>,
                    << "p", "a", "r", "t", "y" >>,
                    << "b", "i", "r", "t", "h", "d", "a", "y" >>,
                    << "c", "e", "l", "e", "b", "r", "a", "t", "i", "o", "n" >> >>],
     [category |-> << "h", "e", "a", "l", "t", "h" >>,
      keywords |-> << << "g", "y", "m" >>,
                    << "w", "o", "r", "k", "o", "u", "t" >>,
                    << "e", "x", "e", "r", "c", "i", "s", "e" >>,
                    << "f", "i", "t", "n", "e", "s", "s" >> >>],
     [category |-> << "e", "d", "u", "c", "a", "t", "i", "o", "n" >>,
      keywords |-> << << "c", "l", "a", "s", "s" >>,
                    << "c", "o", "u", "r", "s", "e" >>,
                    << "t", "r", "a", "i", "n", "i", "n", "g" >>,
                    << "w", "o", "r", "k", "s", "h", "o", "p" >> >>] >>

(***************************************************************************)
(* The pure functions of app.py                                            *)
(***************************************************************************)

LocalChar(c) == IsAlnum(c) \/ c \in {".", "_", "%", "+", "-"}

DomainChar(c) == IsAlnum(c) \/ c \in {".", "-"}

\* re.match(r'^[a-zA-Z0-9._%+-]+@[a-zA-Z0-9.-]+\.[a-zA-Z]{2,}$', email) is
\* not None, for a str; "$" also matches before one trailing newline.
validate_email(email) ==
  \E n \in {Len(email), Len(email) - 1} :
    /\ n >= 0
    /\ n < Len(email) => email[Len(email)] = "\n"
    /\ \E i \in 2..n, j \in 4..n :
         /\ email[i] = "@"
         /\ \A k \in 1..(i - 1) : LocalChar(email[k])
         /\ j >= i + 2
         /\ email[j] = "."
         /\ \A k \in (i + 1)..(j - 1) : DomainChar(email[k])
         /\ n - j >= 2
         /\ \A k \in (j + 1)..n : IsAlpha(email[k])

\* What extract_calendar_info_from_json returns by default, and the value
\* that stands for an exception leaving the function.
DefaultCalendarInfo ==
  [raised |-> FALSE, email |-> JStr(DefaultEmail),
   name |-> JStr(ImportedCalendarName), timezone |-> JStr(UTC)]

RaisedCalendarInfo == [DefaultCalendarInfo EXCEPT !.raised = TRUE]

\* word in content, for a list content
InList(word, content) ==
  \E i \in 1..Len(content.v) : content.v[i] = JStr(word)

\* Lines 52-68: the calendar_info before its e-mail is validated.  On a
\* list the "in" tests are membership tests, and .get / ['calendar'] raise;
\* on a number or None the first "in" raises TypeError.
DiscoverCalendarInfo(content) ==
  IF content.t = "dict" THEN
    IF HasKey(content, "kind") /\ content.v["kind"] = JStr(CalendarKind)
    THEN [raised   |-> FALSE,
          email    |-> Get(content, "id", JStr(DefaultEmail)),
          name     |-> Get(content, "summary", JStr(ImportedCalendarName)),
          timezone |-> Get(content, "timeZone", JStr(UTC))]
    ELSE IF HasKey(content, "calendarId")
    THEN [DefaultCalendarInfo EXCEPT !.email = content.v["calendarId"]]
    ELSE IF HasKey(content, "calendar")
    THEN LET cal_data == content.v["calendar"]
         IN IF cal_data.t # "dict" THEN RaisedCalendarInfo
            ELSE [DefaultCalendarInfo EXCEPT
                    !.email = Get(cal_data, "id", Get(cal_data, "email", JStr(DefaultEmail))),
                    !.name  = Get(cal_data, "summary",
                                  Get(cal_data, "name", JStr(ImportedCalendarName)))]
    ELSE DefaultCalendarInfo
  ELSE IF content.t = "list" THEN
    IF \/ InList(<< "k", "i", "n", "d" >>, content)
       \/ InList(<< "c", "a", "l", "e", "n", "d", "a", "r", "I", "d" >>, content)
       \/ InList(<< "c", "a", "l", "e", "n", "d", "a", "r" >>, content)
    THEN RaisedCalendarInfo
    ELSE DefaultCalendarInfo
  ELSE RaisedCalendarInfo

\* extract_calendar_info_from_json(content): validate_email raises TypeError
\* on an e-mail that is not a str; an invalid one falls back to the default.
extract_calendar_info_from_json(content) ==
  LET info == DiscoverCalendarInfo(content)
  IN IF info.raised \/ info.email.t # "str" THEN RaisedCalendarInfo
     ELSE IF validate_email(info.email.v) THEN info
     ELSE [info EXCEPT !.email = JStr(DefaultEmail)]

\* get_color_from_id(color_id)
get_color_from_id(color_id) ==
  LET key == PyStr(color_id)
  IN IF \E i \in 1..Len(ColorMap) : ColorMap[i].id = key
     THEN ColorMap[CHOOSE i \in 1..Len(ColorMap) : ColorMap[i].id = key].hex
     ELSE DefaultColor

\* Whether one of the keywords of CategoryKeywords[i] occurs in a field.
CategoryMatches(i, title, description, location) ==
  \E k \in 1..Len(CategoryKeywords[i].keywords) :
    LET keyword == CategoryKeywords[i].keywords[k]
    IN Contains(keyword, title) \/ Contains(keyword, description)
       \/ Contains(keyword, location)

\* extract_category_from_event(event), for a dict event: .lower() raises
\* AttributeError on a summary/title, description or location that is not
\* a str.
extract_category_from_event(event) ==
  LET title       == Get(event, "summary", Get(event, "title", JStr(<< >>)))
      description == Get(event, "description", JStr(<< >>))
      location    == Get(event, "location", JStr(<< >>))
  IN IF title.t # "str" \/ description.t # "str" \/ location.t # "str"
     THEN [raised |-> TRUE, category |-> General]
     ELSE LET title_l       == Lower(title.v)
              description_l == Lower(description.v)
              location_l    == Lower(location.v)
              hit(i) == CategoryMatches(i, title_l, description_l, location_l)
          IN IF \E i \in 1..Len(CategoryKeywords) : hit(i)
             THEN [raised   |-> FALSE,
                   category |-> CategoryKeywords[
                     CHOOSE i \in 1..Len(CategoryKeywords) :
                       hit(i) /\ \A j \in 1..(i - 1) : ~hit(j)].category]
             ELSE [raised |-> FALSE, category |-> General]

\* str(uuid.uuid4()): an identifier that the session has not seen, that is,
\* one that is not in used.  Which one is drawn cannot be observed, so the
\* model draws the first.
Uuid(n) == << "u", "u", "i", "d", "-" >> \o Decimal(n)

FreshUuid(used) ==
  Uuid(CHOOSE n \in 1..(Cardinality(used) + 1) :
         Uuid(n) \notin used /\ \A m \in 1..(n - 1) : Uuid(m) \in used)

\* Lines 108-112 and 115-119: the date text of a start or end value.
ResolveDateTime(info) ==
  IF info.t = "dict" THEN Get(info, "dateTime", Get(info, "date", JNull))
  ELSE IF info.t = "str" THEN info
  ELSE JNull

\* Lines 126-131: the end of a record that gives none.
DefaultEnd(start_dt, now) ==
  LET parsed == IF start_dt.t = "str"
                THEN FromIsoFormat(Replace(start_dt.v, << "Z" >>,
                                           << "+", "0", "0", ":", "0", "0" >>))
                ELSE [ok |-> FALSE, dt |-> NoDateTime]
  IN IF parsed.ok THEN IsoFormat(AddHour(parsed.dt)) ELSE IsoFormat(AddHour(now))

\* Lines 134-137: a date text with no "T" gets the clock text appended.
WithClock(dt, clock) ==
  IF ~Contains(<< "T" >>, PyStr(dt)) THEN PyStr(dt) \o clock ELSE PyStr(dt)

\* Lines 102-160, one pass of the loop of load_events_from_json: the
\* normalized event, or skipped when an exception is caught.  The date
\* values of a record are strings, numbers or null, and its id, status,
\* created and updated are strings.
NormalizeEvent(event, calendar_email, now, fresh_id) ==
  IF event.t # "dict" THEN [skipped |-> TRUE]
  ELSE
    LET start_0  == ResolveDateTime(Get(event, "start", JDict(EmptyDict)))
        end_0    == ResolveDateTime(Get(event, "end", JDict(EmptyDict)))
        start_dt == IF ~Truthy(start_0) THEN JStr(IsoFormat(now)) ELSE start_0
        end_dt   == IF ~Truthy(end_0) THEN JStr(DefaultEnd(start_dt, now)) ELSE end_0
        category == extract_category_from_event(event)
    IN IF category.raised THEN [skipped |-> TRUE]
       ELSE
         [skipped |-> FALSE,
          fresh   |-> ~HasKey(event, "id") /\ ~HasKey(event, "iCalUID"),
          event   |->
            [id             |-> Get(event, "id", Get(event, "iCalUID", JStr(fresh_id))).v,
             title          |-> Get(event, "summary",
                                    Get(event, "title", JStr(UntitledEvent))).v,
             start          |-> WithClock(start_dt, StartOfDay),
             end            |-> WithClock(end_dt, EndOfDay),
             description    |-> Get(event, "description", JStr(<< >>)).v,
             location       |-> Get(event, "location", JStr(<< >>)).v,
             color          |-> get_color_from_id(Get(event, "colorId", JStr(<< "1" >>))),
             calendar_email |-> calendar_email,
             status         |-> Get(event, "status", JStr(Confirmed)).v,
             created        |-> Get(event, "created", JStr(IsoFormat(now))).v,
             updated        |-> Get(event, "updated", JStr(IsoFormat(now))).v,
             attendees      |-> Get(event, "attendees", JList(<< >>)).v,
             recurrence     |-> Get(event, "recurrence", JList(<< >>)).v,
             category       |-> category.category]]

\* Lines 85-97: the records of a document; raised when the value looped
\* over is not iterable.  Looping over a dict or a str yields strings, each
\* of which the loop skips, so they contribute no record.
SelectEvents(content) ==
  LET iter(v) == IF v.t = "list" THEN [raised |-> FALSE, events |-> v.v]
                 ELSE IF v.t \in {"dict", "str"} THEN [raised |-> FALSE, events |-> << >>]
                 ELSE [raised |-> TRUE, events |-> << >>]
  IN IF content.t = "list" THEN iter(content)
     ELSE IF HasKey(content, "items") THEN iter(content.v["items"])
     ELSE IF HasKey(content, "events") THEN iter(content.v["events"])
     ELSE IF HasKey(content, "event")
     THEN [raised |-> FALSE, events |-> << content.v["event"] >>]
     ELSE IF HasKey(content, "summary") \/ HasKey(content, "title")
     THEN [raised |-> FALSE, events |-> << content >>]
     ELSE [raised |-> FALSE, events |-> << >>]

\* A loop over the records without the try of line 101 around each pass:
\* the first record that fails ends the loop, and the records normalized
\* before it are what is kept.
RECURSIVE NormalizeAllStopping(_, _, _, _)
NormalizeAllStopping(raw, calendar_email, now, used) ==
  IF raw = << >> THEN << >>
  ELSE
    LET one == NormalizeEvent(Head(raw), calendar_email, now, FreshUuid(used))
    IN IF one.skipped THEN << >>
       ELSE << one.event >>
            \o NormalizeAllStopping(Tail(raw), calendar_email, now,
                                    used \cup {one.event.id})

\* Lines 100-160: the loop over the records; used holds the identifiers
\* the session has seen.  Yields the normalized events.
RECURSIVE NormalizeAll(_, _, _, _)
NormalizeAll(raw, calendar_email, now, used) ==
  IF raw = << >> THEN << >>
  ELSE
    LET one == NormalizeEvent(Head(raw), calendar_email, now, FreshUuid(used))
    IN IF one.skipped THEN NormalizeAll(Tail(raw), calendar_email, now, used)
       ELSE << one.event >>
            \o NormalizeAll(Tail(raw), calendar_email, now, used \cup {one.event.id})

\* What load_events_from_json returns from its two outer except clauses:
\* ([], {}).
LoadFailed == [fatal |-> TRUE, events |-> << >>, has_info |-> FALSE,
               info |-> DefaultCalendarInfo]

\* load_events_from_json(uploaded_file): file.valid is whether json.load
\* succeeds, file.content what it returns.
load_events_from_json(file, now, used) ==
  IF ~file.valid THEN LoadFailed
  ELSE
    LET calendar_info == extract_calendar_info_from_json(file.content)
    IN IF calendar_info.raised THEN LoadFailed
       ELSE LET selected == SelectEvents(file.content)
            IN IF selected.raised THEN LoadFailed
               ELSE [fatal    |-> FALSE,
                     events   |-> NormalizeAll(selected.events, calendar_info.email.v,
                                               now, used),
                     has_info |-> TRUE,
                     info     |-> calendar_info]

(***************************************************************************)
(* Session state                                                           *)
(*                                                                         *)
(* calendars is the dict of line 25 as the sequence of its items in        *)
(* insertion order.  None is << >>: selected_event is << >> or << e >>,    *)
(* last_backup is << >> or an isoformat text.  clock stands for            *)
(* datetime.now(); result is what the last script run did and reported.    *)
(***************************************************************************)

VARIABLES events, selected_event, calendars, active_calendar, last_backup,
          auto_save, clock, result

vars == << events, selected_event, calendars, active_calendar, last_backup,
           auto_save, clock, result >>

\* Bounds of the model: the events of a session with the edit form, and of
\* a session without it.
MaxEvents == 2

MaxStored == 3

MaxCalendars == 2

MaxClock == 2

MaxTitle == 12

\* datetime.now() at clock c.
NowAt(c) ==
  [y |-> 2024, m |-> 6, d |-> 15, h |-> 11 + c, mi |-> 30, s |-> 0,
   us |-> 250000, tz |-> << >>]

Now == NowAt(clock)

\* The value of one calendar of st.session_state.calendars.
CalendarEntry(email, name) ==
  [email |-> email, name |-> name, color |-> DefaultColor, visible |-> TRUE]

\* list(calendars.keys()) and its set
CalendarOptions(cals) == [i \in 1..Len(cals) |-> cals[i].email]

CalendarKeys(cals) == {cals[i].email : i \in 1..Len(cals)}

\* calendars[email] = entry: an existing key keeps its place.
SetCalendar(cals, entry) ==
  IF entry.email \in CalendarKeys(cals)
  THEN [i \in 1..Len(cals) |-> IF cals[i].email = entry.email THEN entry ELSE cals[i]]
  ELSE Append(cals, entry)

\* del calendars[email]
DelCalendar(cals, email) == SelectSeq(cals, LAMBDA c : c.email # email)

\* The identifiers the session holds: uuid4() draws none of them.
SeenIds ==
  {events[i].id : i \in 1..Len(events)}
  \cup {selected_event[i].id : i \in 1..Len(selected_event)}

\* initialize_session_state
Init ==
  /\ events = << >>
  /\ selected_event = << >>
  /\ calendars = << CalendarEntry(DefaultEmail, DefaultCalendarName) >>
  /\ active_calendar = DefaultEmail
  /\ last_backup = << >>
  /\ auto_save = TRUE
  /\ clock = 1
  /\ result = [op |-> "init", ok |-> TRUE, arg |-> << >>]

\* Lines 428-436, run at the top of every script run: the value of the
\* "Active Calendar" selectbox when the user has not touched it, which is
\* then assigned to active_calendar.
SelectorValue(cals, active) ==
  IF active \in CalendarKeys(cals) THEN active ELSE CalendarOptions(cals)[1]

(***************************************************************************)
(* The event operations of app.py.  Each yields what it returns (ok) and   *)
(* the session state it leaves.                                            *)
(***************************************************************************)

\* add_event, lines 241-284; active is st.session_state.active_calendar.
\* add_event with the test of line 253 weakened to end < start: an event
\* that ends when it starts is stored.
add_event_accepting_equal(title, start_date, start_time, end_date, end_time, description, location, color, category, calendar_email, active) ==
  LET owner          == IF calendar_email = << >> THEN active ELSE calendar_email
      start_datetime == IsoFormat(Combine(start_date, start_time))
      end_datetime   == IsoFormat(Combine(end_date, end_time))
      new_event      ==
        [id             |-> FreshUuid(SeenIds),
         title          |-> title,
         start          |-> start_datetime,
         end            |-> end_datetime,
         description    |-> description,
         location       |-> location,
         color          |-> color,
         calendar_email |-> owner,
         status         |-> Confirmed,
         created        |-> IsoFormat(Now),
         updated        |-> IsoFormat(Now),
         attendees      |-> << >>,
         recurrence     |-> << >>,
         category       |-> category]
  IN IF StrLess(end_datetime, start_datetime)
     THEN [ok |-> FALSE, events |-> events, last_backup |-> last_backup]
     ELSE [ok |-> TRUE, events |-> Append(events, new_event),
           last_backup |-> IF auto_save THEN IsoFormat(Now) ELSE last_backup]

add_event(title, start_date, start_time, end_date, end_time, description, location, color, category, calendar_email, active) ==
  LET owner          == IF calendar_email = << >> THEN active ELSE calendar_email
      start_datetime == IsoFormat(Combine(start_date, start_time))
      end_datetime   == IsoFormat(Combine(end_date, end_time))
      new_event      ==
        [id             |-> FreshUuid(SeenIds),
         title          |-> title,
         start          |-> start_datetime,
         end            |-> end_datetime,
         description    |-> description,
         location       |-> location,
         color          |-> color,
         calendar_email |-> owner,
         status         |-> Confirmed,
         created        |-> IsoFormat(Now),
         updated        |-> IsoFormat(Now),
         attendees      |-> << >>,
         recurrence     |-> << >>,
         category       |-> category]
  IN IF StrLeq(end_datetime, start_datetime)
     THEN [ok |-> FALSE, events |-> events, last_backup |-> last_backup]
     ELSE [ok |-> TRUE, events |-> Append(events, new_event),
           last_backup |-> IF auto_save THEN IsoFormat(Now) ELSE last_backup]

\* An update_event that updates every event with the id (without the
\* return of line 311).
update_event_of_every(event_id, title, start_date, start_time, end_date, end_time, description, location, color, category) ==
  LET start_datetime == IsoFormat(Combine(start_date, start_time))
      end_datetime   == IsoFormat(Combine(end_date, end_time))
      found          == {i \in 1..Len(events) : events[i].id = event_id}
  IN IF StrLeq(end_datetime, start_datetime) THEN [ok |-> FALSE, events |-> events]
     ELSE IF found = {} THEN [ok |-> FALSE, events |-> events]
     ELSE [ok |-> TRUE,
           events |-> [i \in 1..Len(events) |->
             IF i \in found
             THEN [events[i] EXCEPT !.title = title, !.start = start_datetime,
                          !.end = end_datetime, !.description = description,
                          !.location = location, !.color = color,
                          !.category = category, !.updated = IsoFormat(Now)]
             ELSE events[i]]]

\* An update_event that does not compare the end with the start (without
\* lines 294-297).
update_event_unvalidated(event_id, title, start_date, start_time, end_date, end_time, description, location, color, category) ==
  LET start_datetime == IsoFormat(Combine(start_date, start_time))
      end_datetime   == IsoFormat(Combine(end_date, end_time))
      found          == {i \in 1..Len(events) : events[i].id = event_id}
  IN IF found = {} THEN [ok |-> FALSE, events |-> events]
     ELSE LET i == CHOOSE k \in found : \A j \in found : k <= j
          IN [ok |-> TRUE,
              events |-> [events EXCEPT ![i] =
                [@ EXCEPT !.title = title, !.start = start_datetime,
                          !.end = end_datetime, !.description = description,
                          !.location = location, !.color = color,
                          !.category = category, !.updated = IsoFormat(Now)]]]

\* update_event, lines 286-318: the first event with the id is updated.
update_event(event_id, title, start_date, start_time, end_date, end_time, description, location, color, category) ==
  LET start_datetime == IsoFormat(Combine(start_date, start_time))
      end_datetime   == IsoFormat(Combine(end_date, end_time))
      found          == {i \in 1..Len(events) : events[i].id = event_id}
  IN IF StrLeq(end_datetime, start_datetime) THEN [ok |-> FALSE, events |-> events]
     ELSE IF found = {} THEN [ok |-> FALSE, events |-> events]
     ELSE LET i == CHOOSE k \in found : \A j \in found : k <= j
          IN [ok |-> TRUE,
              events |-> [events EXCEPT ![i] =
                [@ EXCEPT !.title = title, !.start = start_datetime,
                          !.end = end_datetime, !.description = description,
                          !.location = location, !.color = color,
                          !.category = category, !.updated = IsoFormat(Now)]]]

\* delete_event, lines 320-334
delete_event(event_id) ==
  LET kept == SelectSeq(events, LAMBDA e : e.id # event_id)
  IN [ok |-> Len(kept) < Len(events), events |-> kept]

\* An event of the store as an item of a JSON document (json.dumps followed
\* by json.load): every field is a str but the two lists.
EventToJson(e) ==
  JDict([id             |-> JStr(e.id),
         title          |-> JStr(e.title),
         start          |-> JStr(e.start),
         end            |-> JStr(e.end),
         description    |-> JStr(e.description),
         location       |-> JStr(e.location),
         color          |-> JStr(e.color),
         calendar_email |-> JStr(e.calendar_email),
         status         |-> JStr(e.status),
         created        |-> JStr(e.created),
         updated        |-> JStr(e.updated),
         attendees      |-> JList(e.attendees),
         recurrence     |-> JList(e.recurrence),
         category       |-> JStr(e.category)])

CalendarName(cals, email) ==
  IF email \in CalendarKeys(cals)
  THEN cals[CHOOSE i \in 1..Len(cals) : cals[i].email = email].name
  ELSE << "E", "x", "p", "o", "r", "t", "e", "d", " ", "C", "a", "l", "e", "n", "d", "a", "r" >>

\* export_events_to_json(calendar_email), lines 336-356, read back as an
\* uploaded file; calendar_email << >> is None ("All Calendars").
export_events_to_json(calendar_email, active) ==
  LET owner == IF calendar_email = << >> THEN active ELSE calendar_email
      events_to_export ==
        IF calendar_email = << >> THEN events
        ELSE SelectSeq(events, LAMBDA e : e.calendar_email = calendar_email)
  IN [valid   |-> TRUE,
      content |-> JDict(
        [kind     |-> JStr(<< "c", "a", "l", "e", "n", "d", "a", "r", "#", "e", "v", "e", "n", "t", "s" >>),
         etag     |-> JStr(Uuid(0)),
         summary  |-> JStr(CalendarName(calendars, owner)),
         updated  |-> JStr(IsoFormat(Now)),
         timeZone |-> JStr(UTC),
         calendar |-> JDict([id      |-> JStr(owner),
                             summary |-> JStr(CalendarName(calendars, owner))]),
         items    |-> JList([i \in 1..Len(events_to_export) |->
                               EventToJson(events_to_export[i])])])]

(***************************************************************************)
(* What the user enters                                                    *)
(***************************************************************************)

Date(y, m, d) == [y |-> y, m |-> m, d |-> d]

\* st.time_input yields a time with no seconds.
Time(h, mi) == [h |-> h, mi |-> mi, s |-> 0, us |-> 0]

\* The dates and times entered in a form: an end equal to the start, an
\* end earlier on the same day, and an end on a later day at an earlier
\* time of day.
When(start_date, start_time, end_date, end_time) ==
  [start_date |-> start_date, start_time |-> start_time,
   end_date |-> end_date, end_time |-> end_time]

WhenInputs ==
  {When(Date(2024, 6, 14), Time(12, 0), Date(2024, 6, 14), Time(12, 0)),
   When(Date(2024, 6, 14), Time(12, 0), Date(2024, 6, 14), Time(8, 0)),
   When(Date(2024, 6, 14), Time(12, 0), Date(2024, 6, 15), Time(8, 0))}

TitleInputs == {<< "G", "y", "m" >>, << " " >>}

\* color_options of the two forms, lines 648-657 and 721-730.
Palette ==
  << << "#", "3", "7", "8", "8", "d", "8" >>,
     << "#", "3", "3", "b", "6", "7", "9" >>,
     << "#", "e", "7", "4", "c", "3", "c" >>,
     << "#", "f", "3", "9", "c", "1", "2" >>,
     << "#", "9", "b", "5", "9", "b", "6" >>,
     << "#", "e", "9", "1", "e", "6", "3" >>,
     << "#", "1", "a", "b", "c", "9", "c" >>,
     << "#", "f", "1", "c", "4", "0", "f" >> >>

\* categories of the two forms, lines 662 and 739.
Categories ==
  << << "g", "e", "n", "e", "r", "a", "l" >>,
     << "m", "e", "e", "t", "i", "n", "g" >>,
     << "p", "e", "r", "s", "o", "n", "a", "l" >>,
     << "w", "o", "r", "k" >>,
     << "t", "r", "a", "v", "e", "l" >>,
     << "s", "o", "c", "i", "a", "l" >>,
     << "h", "e", "a", "l", "t", "h" >>,
     << "e", "d", "u", "c", "a", "t", "i", "o", "n" >> >>

ColorInputs == {Palette[2]}

CategoryInputs == {Categories[4]}

TeamEmail == << "t", "e", "a", "m", "@", "x", ".", "i", "o" >>

EmailInputs == {<< >>, << "n", "o", "b", "o", "d", "y" >>, TeamEmail}

NameInputs == {<< "W", "o", "r", "k" >>}

\* The records of the uploaded documents.
RecordSync ==
  JDict([id      |-> JStr(<< "e", "1" >>),
         summary |-> JStr(<< "T", "e", "a", "m", " ", "s", "y", "n", "c" >>),
         start   |-> JDict([dateTime |-> JStr(<< "2", "0", "2", "4", "-", "0", "6", "-", "1", "0", "T", "0", "8", ":", "0", "0", ":", "0", "0", "Z" >>)]),
         end     |-> JDict([dateTime |-> JStr(<< "2", "0", "2", "4", "-", "0", "6", "-", "1", "0", "T", "0", "9", ":", "0", "0", ":", "0", "0", "Z" >>)]),
         colorId |-> JStr(<< "2" >>)])

RecordAllDay ==
  JDict([title |-> JStr(<< "L", "u", "n", "c", "h" >>),
         start |-> JDict([date |-> JStr(<< "2", "0", "2", "4", "-", "0", "7", "-", "0", "1" >>)])])

\* The uploaded documents: unparseable; a vendor events list with one
\* malformed record; a bare list; an items value that cannot be looped
\* over; a calendar value that is not an object; a calendar descriptor
\* with no events.
DocInvalid == [valid |-> FALSE, content |-> JNull]

DocItems ==
  [valid   |-> TRUE,
   content |-> JDict([calendarId |-> JStr(TeamEmail),
                      items      |-> JList(<< RecordSync, JNum(5) >>)])]

DocList == [valid |-> TRUE, content |-> JList(<< RecordAllDay >>)]

DocNotIterable ==
  [valid   |-> TRUE,
   content |-> JDict([calendarId |-> JStr(TeamEmail), items |-> JNum(5)])]

DocBadCalendar ==
  [valid   |-> TRUE,
   content |-> JDict([calendar |-> JStr(<< "t", "e", "a", "m" >>),
                      items    |-> JList(<< RecordSync >>)])]

DocDescriptor ==
  [valid   |-> TRUE,
   content |-> JDict([kind |-> JStr(CalendarKind), id |-> JStr(TeamEmail)])]

Documents ==
  {DocInvalid, DocItems, DocList, DocNotIterable, DocBadCalendar, DocDescriptor}

\* The downloads of the export of the store, offered when the store is not
\* empty (line 498): of all calendars, or of one.
Downloads(active) ==
  IF events = << >> THEN {}
  ELSE {export_events_to_json(c, active) : c \in {<< >>} \cup CalendarKeys(calendars)}

(***************************************************************************)
(* Script runs.  One action is one run of the script with one widget       *)
(* event: the selector of lines 428-436, then the handler.                 *)
(***************************************************************************)

Outcome(op, ok, arg) == [op |-> op, ok |-> ok, arg |-> arg]

\* The user picks another active calendar, lines 430-436.
SelectCalendar(email) ==
  /\ email \in CalendarKeys(calendars)
  /\ email # active_calendar
  /\ active_calendar' = email
  /\ result' = Outcome("select_calendar", TRUE, << >>)
  /\ UNCHANGED << events, selected_event, calendars, last_backup, auto_save,
                  clock >>

\* "Add Calendar", lines 446-457.
AddCalendar(new_email, new_name) ==
  LET active == SelectorValue(calendars, active_calendar)
  IN IF new_email # << >> /\ validate_email(new_email)
     THEN /\ new_email \in CalendarKeys(calendars) \/ Len(calendars) < MaxCalendars
          /\ calendars' = SetCalendar(calendars,
               CalendarEntry(new_email, IF new_name # << >> THEN new_name ELSE new_email))
          /\ active_calendar' = new_email
          /\ result' = Outcome("add_calendar", TRUE, new_email)
          /\ UNCHANGED << events, selected_event, last_backup, auto_save, clock >>
     ELSE /\ active_calendar' = active
          /\ result' = Outcome("add_calendar", FALSE, << >>)
          /\ UNCHANGED << events, selected_event, calendars, last_backup,
                          auto_save, clock >>

\* An import handler without the test of line 471, which makes the calendar
\* of the document the active one.
ImportEventsActivating(uploaded_file) ==
  LET loaded   == load_events_from_json(uploaded_file, Now, SeenIds)
      cal_email == IF loaded.has_info THEN loaded.info.email.v ELSE DefaultEmail
      cal_name  == IF loaded.has_info THEN loaded.info.name.v ELSE ImportedCalendarName
  IN /\ cal_email \in CalendarKeys(calendars) \/ Len(calendars) < MaxCalendars
     /\ calendars' = IF cal_email \in CalendarKeys(calendars) THEN calendars
                     ELSE SetCalendar(calendars, CalendarEntry(cal_email, cal_name))
     /\ events' = events \o loaded.events
     /\ active_calendar' = cal_email
     /\ result' = Outcome("import", ~loaded.fatal, << >>)
     /\ UNCHANGED << selected_event, last_backup, auto_save, clock >>

\* "Import Events", lines 469-485.
ImportEvents(uploaded_file) ==
  LET active   == SelectorValue(calendars, active_calendar)
      loaded   == load_events_from_json(uploaded_file, Now, SeenIds)
      cal_email == IF loaded.has_info THEN loaded.info.email.v ELSE DefaultEmail
      cal_name  == IF loaded.has_info THEN loaded.info.name.v ELSE ImportedCalendarName
  IN /\ active_calendar' = active
     /\ result' = Outcome("import", ~loaded.fatal, << >>)
     /\ IF loaded.events # << >>
        THEN /\ cal_email \in CalendarKeys(calendars) \/ Len(calendars) < MaxCalendars
             /\ calendars' = IF cal_email \in CalendarKeys(calendars) THEN calendars
                             ELSE SetCalendar(calendars, CalendarEntry(cal_email, cal_name))
             /\ events' = events \o loaded.events
        ELSE UNCHANGED << calendars, events >>
     /\ UNCHANGED << selected_event, last_backup, auto_save, clock >>

\* "Add Event", lines 666-685: event_calendar is a choice among the
\* calendars when there are several, else the active calendar.
AddEvent(title, start_date, start_time, end_date, end_time, description, location, color, category, event_calendar) ==
  LET active == SelectorValue(calendars, active_calendar)
      added  == add_event(Strip(title), start_date, start_time, end_date, end_time,
                          description, location, color, category, event_calendar,
                          active)
  IN /\ event_calendar \in CalendarKeys(calendars)
     /\ Len(calendars) > 1 \/ event_calendar = active
     /\ active_calendar' = active
     /\ IF Strip(title) # << >>
        THEN /\ events' = added.events
             /\ last_backup' = added.last_backup
             /\ result' = Outcome("add_event", added.ok, << >>)
        ELSE /\ result' = Outcome("add_event_form", FALSE, << >>)
             /\ UNCHANGED << events, last_backup >>
     /\ UNCHANGED << selected_event, calendars, auto_save, clock >>

\* A format_events_for_calendar that searches the titles only.
format_events_for_calendar_by_title(evs, active_filter, search_term) ==
  LET shown(e) ==
        /\ active_filter = << >> \/ e.calendar_email = active_filter
        /\ search_term = << >> \/ Contains(Lower(search_term), Lower(e.title))
      kept == SelectSeq(evs, shown)
  IN [i \in 1..Len(kept) |->
        [id          |-> kept[i].id,
         title       |-> kept[i].title,
         start       |-> kept[i].start,
         end         |-> kept[i].end,
         color       |-> kept[i].color,
         description |-> kept[i].description,
         location    |-> kept[i].location,
         textColor   |-> IF kept[i].color # << "#", "e", "1", "e", "1", "e", "1" >>
                         THEN << "#", "f", "f", "f", "f", "f", "f" >> ELSE << "#", "0", "0", "0", "0", "0", "0" >>]]

\* format_events_for_calendar(events, active_calendar), lines 211-239;
\* active_filter << >> is None.
format_events_for_calendar(evs, active_filter, search_term) ==
  LET shown(e) ==
        /\ active_filter = << >> \/ e.calendar_email = active_filter
        /\ \/ search_term = << >>
           \/ Contains(Lower(search_term), Lower(e.title))
           \/ Contains(Lower(search_term), Lower(e.description))
           \/ Contains(Lower(search_term), Lower(e.location))
      kept == SelectSeq(evs, shown)
  IN [i \in 1..Len(kept) |->
        [id          |-> kept[i].id,
         title       |-> kept[i].title,
         start       |-> kept[i].start,
         end         |-> kept[i].end,
         color       |-> kept[i].color,
         description |-> kept[i].description,
         location    |-> kept[i].location,
         textColor   |-> IF kept[i].color # << "#", "e", "1", "e", "1", "e", "1" >>
                         THEN << "#", "f", "f", "f", "f", "f", "f" >> ELSE << "#", "0", "0", "0", "0", "0", "0" >>]]

SearchInputs == {<< >>}

\* A click on an event of the calendar view, lines 561-611.
EventClick(event_id, search_term) ==
  LET active == SelectorValue(calendars, active_calendar)
      calendar_events ==
        format_events_for_calendar(events,
          IF Len(calendars) > 1 THEN active ELSE << >>, search_term)
      hit == CHOOSE i \in 1..Len(events) :
               events[i].id = event_id /\ \A j \in 1..(i - 1) : events[j].id # event_id
  IN /\ \E i \in 1..Len(calendar_events) : calendar_events[i].id = event_id
     /\ active_calendar' = active
     /\ selected_event' = << events[hit] >>
     /\ result' = Outcome("select_event", TRUE, << >>)
     /\ UNCHANGED << events, calendars, last_backup, auto_save, clock >>

\* event['start'].replace('Z', '+00:00').replace('+00:00', ''), parsed:
\* lines 382, 701, 824 and 966.
ParseStored(text) ==
  FromIsoFormat(Replace(Replace(text, << "Z" >>, << "+", "0", "0", ":", "0", "0" >>),
                        << "+", "0", "0", ":", "0", "0" >>, << >>))

RECURSIVE InsertDesc(_, _)
InsertDesc(x, seq) ==
  IF seq = << >> THEN << x >>
  ELSE IF StrLess(Head(seq).start, x.start) THEN << x >> \o seq
  ELSE << Head(seq) >> \o InsertDesc(x, Tail(seq))

\* sorted(seq, key=lambda x: x['start'], reverse=True): stable.
RECURSIVE SortedDesc(_)
SortedDesc(seq) ==
  IF seq = << >> THEN << >>
  ELSE InsertDesc(seq[Len(seq)], SortedDesc(SubSeq(seq, 1, Len(seq) - 1)))

All == << "A", "l", "l" >>

events_per_page == 10

\* Lines 796-820: the page of the list view.
ListPage(filter_calendar, filter_category, page) ==
  LET filtered ==
        SelectSeq(events, LAMBDA e :
          /\ filter_calendar = All \/ e.calendar_email = filter_calendar
          /\ filter_category = All \/ e.category = filter_category)
      sorted_events == SortedDesc(filtered)
      total_pages ==
        IF sorted_events # << >> THEN ((Len(sorted_events) - 1) \div events_per_page) + 1
        ELSE 1
      start_idx == (page - 1) * events_per_page
      end_idx   == start_idx + events_per_page
  IN IF total_pages > 1
     THEN SubSeq(sorted_events, start_idx + 1,
                 IF end_idx < Len(sorted_events) THEN end_idx ELSE Len(sorted_events))
     ELSE sorted_events

ListPages(filter_calendar, filter_category) ==
  LET n == Len(SelectSeq(events, LAMBDA e :
             /\ filter_calendar = All \/ e.calendar_email = filter_calendar
             /\ filter_category = All \/ e.category = filter_category))
  IN 1..(IF n > 0 THEN ((n - 1) \div events_per_page) + 1 ELSE 1)

\* Lines 822-855: the k-th card of the page has an Edit button when its
\* start parses and no earlier card drew a button with the same key (a
\* duplicate key raises inside the try).
HasEditButton(page_events, k) ==
  /\ ParseStored(page_events[k].start).ok
  /\ \A j \in 1..(k - 1) :
       page_events[j].id = page_events[k].id => ~ParseStored(page_events[j].start).ok

\* The Edit button of a card of the list view, lines 843-845.
ListEdit(filter_calendar, filter_category, page, k) ==
  LET active      == SelectorValue(calendars, active_calendar)
      page_events == ListPage(filter_calendar, filter_category, page)
  IN /\ events # << >>
     /\ page \in ListPages(filter_calendar, filter_category)
     /\ k \in 1..Len(page_events)
     /\ HasEditButton(page_events, k)
     /\ active_calendar' = active
     /\ selected_event' = << page_events[k] >>
     /\ result' = Outcome("select_event", TRUE, << >>)
     /\ UNCHANGED << events, calendars, last_backup, auto_save, clock >>

\* What st.date_input and st.time_input keep of a datetime.
DateOf(dt) == Date(dt.y, dt.m, dt.d)

TimeOf(dt) == Time(dt.h, dt.mi)

\* Lines 697-742: the values the edit form shows for the selected event.
EditFormDefaults(event, now) ==
  LET start_p == ParseStored(event.start)
      end_p   == ParseStored(event.end)
      parsed  == start_p.ok /\ end_p.ok
      start_dt == IF parsed THEN start_p.dt ELSE now
      end_dt   == IF parsed THEN end_p.dt ELSE AddHour(now)
  IN [title       |-> event.title,
      start_date  |-> DateOf(start_dt),
      start_time  |-> TimeOf(start_dt),
      end_date    |-> DateOf(end_dt),
      end_time    |-> TimeOf(end_dt),
      description |-> event.description,
      location    |-> event.location,
      color       |-> IF IsIn(event.color, Palette) THEN event.color ELSE Palette[1],
      category    |-> IF IsIn(event.category, Categories) THEN event.category
                      ELSE Categories[1]]

\* What the user can have in the edit form when a button is pressed: the
\* values shown, with the title, the dates and times, or the color and
\* category possibly replaced by entered ones.
EditForms(event, now, titles, whens, looks) ==
  LET shown == EditFormDefaults(event, now)
      shown_when == When(shown.start_date, shown.start_time, shown.end_date,
                         shown.end_time)
  IN {[title       |-> title,
       start_date  |-> when.start_date,
       start_time  |-> when.start_time,
       end_date    |-> when.end_date,
       end_time    |-> when.end_time,
       description |-> shown.description,
       location    |-> shown.location,
       color       |-> look[1],
       category    |-> look[2]] :
      title \in {shown.title} \cup titles,
      when \in {shown_when} \cup whens,
      look \in {<< shown.color, shown.category >>} \cup looks}

\* "Update" of the edit form, lines 752-760.
UpdateSubmitted(form) ==
  LET active  == SelectorValue(calendars, active_calendar)
      event   == selected_event[1]
      updated == update_event(event.id, Strip(form.title), form.start_date,
                              form.start_time, form.end_date, form.end_time,
                              form.description, form.location, form.color,
                              form.category)
  IN /\ selected_event # << >>
     /\ active_calendar' = active
     /\ IF Strip(form.title) # << >>
        THEN /\ events' = updated.events
             /\ selected_event' = IF updated.ok THEN << >> ELSE selected_event
             /\ result' = Outcome("update_event", updated.ok, << >>)
        ELSE /\ result' = Outcome("edit_event_form", FALSE, << >>)
             /\ UNCHANGED << events, selected_event >>
     /\ UNCHANGED << calendars, last_backup, auto_save, clock >>

\* "Duplicate" of the edit form, lines 762-768.
DuplicateSubmitted(form) ==
  LET active == SelectorValue(calendars, active_calendar)
      event  == selected_event[1]
      added  == add_event(Strip(form.title) \o CopySuffix, form.start_date,
                          form.start_time, form.end_date, form.end_time,
                          form.description, form.location, form.color,
                          form.category, event.calendar_email, active)
  IN /\ selected_event # << >>
     /\ Len(Strip(form.title) \o CopySuffix) <= MaxTitle
     /\ active_calendar' = active
     /\ IF Strip(form.title) # << >>
        THEN /\ events' = added.events
             /\ last_backup' = added.last_backup
             /\ result' = Outcome("duplicate", added.ok, << >>)
        ELSE /\ result' = Outcome("edit_event_form", FALSE, << >>)
             /\ UNCHANGED << events, last_backup >>
     /\ UNCHANGED << selected_event, calendars, auto_save, clock >>

\* "Delete" of the edit form, lines 770-774.
DeleteSubmitted ==
  LET active  == SelectorValue(calendars, active_calendar)
      event   == selected_event[1]
      deleted == delete_event(event.id)
  IN /\ selected_event # << >>
     /\ active_calendar' = active
     /\ events' = deleted.events
     /\ selected_event' = IF deleted.ok THEN << >> ELSE selected_event
     /\ result' = Outcome("delete_event", deleted.ok, event.id)
     /\ UNCHANGED << calendars, last_backup, auto_save, clock >>

\* A delete button that leaves the events of the calendar in the store
\* (without line 949).
DeleteCalendarKeepingEvents(email) ==
  LET active == SelectorValue(calendars, active_calendar)
      kept   == DelCalendar(calendars, email)
  IN /\ email \in CalendarKeys(calendars)
     /\ IF Len(calendars) > 1 /\ email # DefaultEmail
        THEN /\ calendars' = kept
             /\ active_calendar' = IF active = email THEN CalendarOptions(kept)[1]
                                   ELSE active
             /\ result' = Outcome("delete_calendar", TRUE, email)
             /\ UNCHANGED events
        ELSE /\ active_calendar' = active
             /\ result' = Outcome("delete_calendar", FALSE, email)
             /\ UNCHANGED << events, calendars >>
     /\ UNCHANGED << selected_event, last_backup, auto_save, clock >>

\* A delete button that leaves active_calendar as it is (without lines
\* 951-952).
DeleteCalendarKeepingActive(email) ==
  LET active == SelectorValue(calendars, active_calendar)
      kept   == DelCalendar(calendars, email)
  IN /\ email \in CalendarKeys(calendars)
     /\ IF Len(calendars) > 1 /\ email # DefaultEmail
        THEN /\ events' = SelectSeq(events, LAMBDA e : e.calendar_email # email)
             /\ calendars' = kept
             /\ active_calendar' = active
             /\ result' = Outcome("delete_calendar", TRUE, email)
        ELSE /\ active_calendar' = active
             /\ result' = Outcome("delete_calendar", FALSE, email)
             /\ UNCHANGED << events, calendars >>
     /\ UNCHANGED << selected_event, last_backup, auto_save, clock >>

\* A delete button drawn for every calendar when there are several (line
\* 946 without its test of the default calendar).
DeleteCalendarOfSeveral(email) ==
  LET active == SelectorValue(calendars, active_calendar)
      kept   == DelCalendar(calendars, email)
  IN /\ email \in CalendarKeys(calendars)
     /\ IF Len(calendars) > 1
        THEN /\ events' = SelectSeq(events, LAMBDA e : e.calendar_email # email)
             /\ calendars' = kept
             /\ active_calendar' = IF active = email THEN CalendarOptions(kept)[1]
                                   ELSE active
             /\ result' = Outcome("delete_calendar", TRUE, email)
        ELSE /\ active_calendar' = active
             /\ result' = Outcome("delete_calendar", FALSE, email)
             /\ UNCHANGED << events, calendars >>
     /\ UNCHANGED << selected_event, last_backup, auto_save, clock >>

\* The delete button of a calendar, lines 933-953; it is drawn only when
\* the guard of line 946 holds.
DeleteCalendar(email) ==
  LET active == SelectorValue(calendars, active_calendar)
      kept   == DelCalendar(calendars, email)
  IN /\ email \in CalendarKeys(calendars)
     /\ IF Len(calendars) > 1 /\ email # DefaultEmail
        THEN /\ events' = SelectSeq(events, LAMBDA e : e.calendar_email # email)
             /\ calendars' = kept
             /\ active_calendar' = IF active = email THEN CalendarOptions(kept)[1]
                                   ELSE active
             /\ result' = Outcome("delete_calendar", TRUE, email)
        ELSE /\ active_calendar' = active
             /\ result' = Outcome("delete_calendar", FALSE, email)
             /\ UNCHANGED << events, calendars >>
     /\ UNCHANGED << selected_event, last_backup, auto_save, clock >>

\* The "Auto-save events" checkbox, lines 868-872.
ToggleAutoSave ==
  /\ auto_save' = ~auto_save
  /\ active_calendar' = SelectorValue(calendars, active_calendar)
  /\ result' = Outcome("settings", TRUE, << >>)
  /\ UNCHANGED << events, selected_event, calendars, last_backup, clock >>

\* "Backup Now", lines 915-917.
BackupNow ==
  /\ last_backup' = IsoFormat(Now)
  /\ active_calendar' = SelectorValue(calendars, active_calendar)
  /\ result' = Outcome("backup", TRUE, << >>)
  /\ UNCHANGED << events, selected_event, calendars, auto_save, clock >>

\* Time passes between two script runs.
Tick ==
  /\ clock < MaxClock
  /\ clock' = clock + 1
  /\ UNCHANGED << events, selected_event, calendars, active_calendar, last_backup,
                  auto_save, result >>

\* The script runs of the calendar management.
CalendarRun ==
  \/ \E email \in CalendarKeys(calendars) : SelectCalendar(email)
  \/ \E new_email \in EmailInputs, new_name \in NameInputs :
       AddCalendar(new_email, new_name)
  \/ \E email \in CalendarKeys(calendars) : DeleteCalendar(email)

\* The script runs of the import, of the files in uploads.
ImportRun(uploads, room) ==
  /\ Len(events) < room
  /\ \E uploaded_file \in uploads :
       ImportEvents(uploaded_file) /\ Len(events') <= room

\* The script runs of the add form, with the titles and the dates and
\* times the user enters; the store holds at most room events.
AddRun(titles, whens, room) ==
  /\ Len(events) < room
  /\ \E title \in titles, when \in whens, color \in ColorInputs,
       category \in CategoryInputs, event_calendar \in CalendarKeys(calendars) :
       AddEvent(title, when.start_date, when.start_time, when.end_date,
                when.end_time, << >>, << >>, color, category, event_calendar)

\* The script runs of the event selection and of the edit form; titles,
\* whens and looks are what the user enters in the form.
EditRun(titles, whens, looks) ==
  LET forms == IF selected_event = << >> THEN {}
               ELSE EditForms(selected_event[1], Now, titles, whens, looks)
  IN \/ \E i \in 1..Len(events), search_term \in SearchInputs :
          EventClick(events[i].id, search_term)
     \/ \E filter_calendar \in {All} \cup CalendarKeys(calendars),
           filter_category \in {All} \cup CategoryInputs,
           page \in 1..1, k \in 1..Len(events) :
          ListEdit(filter_calendar, filter_category, page, k)
     \/ \E form \in forms : UpdateSubmitted(form)
     \/ /\ Len(events) < MaxEvents
        /\ \E form \in forms : DuplicateSubmitted(form)
     \/ DeleteSubmitted

\* The script runs of the settings tab, and the passing of time.
SettingsRun ==
  \/ ToggleAutoSave
  \/ BackupNow
  \/ Tick

\* The titles of TitleInputs that the forms accept.
ValidTitleInputs == {title \in TitleInputs : Strip(title) # << >>}

\* The dates and times of WhenInputs that add_event accepts.
ValidWhenInputs ==
  {when \in WhenInputs :
     StrLess(IsoFormat(Combine(when.start_date, when.start_time)),
             IsoFormat(Combine(when.end_date, when.end_time)))}

\* Every operation on events and calendars, at one instant, with auto-save
\* left on and with forms that pass their validation.
Next ==
  \/ CalendarRun
  \/ ImportRun({DocItems, DocInvalid}, MaxEvents)
  \/ AddRun(ValidTitleInputs, ValidWhenInputs, MaxEvents)
  \/ EditRun({}, ValidWhenInputs, {})

Spec == Init /\ [][Next]_vars

\* The event operations on the default calendar with every form input, the
\* settings tab and the clock.
NextSession ==
  \/ AddRun(TitleInputs, WhenInputs, MaxEvents)
  \/ EditRun(TitleInputs, WhenInputs, ColorInputs \X CategoryInputs)
  \/ SettingsRun

SpecSession == Init /\ [][NextSession]_vars

\* The calendars, the add form, and the import of every document and of
\* every download of the export.
NextStore ==
  \/ CalendarRun
  \/ AddRun(ValidTitleInputs, ValidWhenInputs, MaxStored)
  \/ ImportRun(Documents \cup Downloads(SelectorValue(calendars, active_calendar)),
               MaxStored)

SpecStore == Init /\ [][NextStore]_vars

(***************************************************************************)
(* Imports of vendor documents whose records carry offsets, texts that     *)
(* are no timestamp, an empty summary, and records that are no objects     *)
(***************************************************************************)

MaxImported == 4

\* A record with a numeric UTC offset, a location and a status.
RecordParis ==
  JDict([id       |-> JStr(<< "p", "1" >>),
         summary  |-> JStr(<< "R", "e", "v", "i", "e", "w" >>),
         location |-> JStr(<< "P", "a", "r", "i", "s" >>),
         status   |-> JStr(<< "t", "e", "n", "t", "a", "t", "i", "v", "e" >>),
         start    |-> JDict([dateTime |-> JStr(<< "2", "0", "2", "4", "-", "0", "6", "-", "1", "4", "T", "0", "9", ":", "0", "0", ":", "0", "0", "+", "0", "2", ":", "0", "0" >>)]),
         end      |-> JDict([dateTime |-> JStr(<< "2", "0", "2", "4", "-", "0", "6", "-", "1", "4", "T", "1", "0", ":", "0", "0", ":", "0", "0", "+", "0", "2", ":", "0", "0" >>)])])

\* A record with an empty summary and a start that is no timestamp.
RecordSoon ==
  JDict([summary |-> JStr(<< >>),
         start   |-> JDict([dateTime |-> JStr(<< "s", "o", "o", "n" >>)])])

\* Records that start on the Monday and the Friday of the week of Now, and
\* in the morning of its day.
RecordMonday ==
  JDict([title |-> JStr(<< "P", "l", "a", "n" >>),
         start |-> JDict([date |-> JStr(<< "2", "0", "2", "4", "-", "0", "6", "-", "1", "0" >>)])])

RecordFriday ==
  JDict([title |-> JStr(<< "D", "e", "m", "o" >>),
         start |-> JDict([date |-> JStr(<< "2", "0", "2", "4", "-", "0", "6", "-", "1", "4" >>)])])

RecordMorning ==
  JDict([title |-> JStr(<< "R", "u", "n" >>),
         start |-> JStr(<< "2", "0", "2", "4", "-", "0", "6", "-", "1", "5", "T", "0", "8", ":", "0", "0", ":", "0", "0" >>)])

\* A vendor events list in which records that are no objects come before
\* and between the others.
DocMixed ==
  [valid   |-> TRUE,
   content |-> JDict([calendarId |-> JStr(TeamEmail),
                      items      |-> JList(<< JNum(5), RecordParis, JStr(<< "x" >>),
                                             RecordSoon >>)])]

\* A bare list of four records around Now.
DocWeek ==
  [valid   |-> TRUE,
   content |-> JList(<< RecordMonday, RecordFriday, RecordMorning, RecordAllDay >>)]

ImportDocuments == Documents \cup {DocMixed, DocWeek}

\* The import of these documents, and the choice of the active calendar.
NextImport ==
  \/ ImportRun(ImportDocuments, MaxImported)
  \/ \E email \in CalendarKeys(calendars) : SelectCalendar(email)

SpecImport == Init /\ [][NextImport]_vars

(***************************************************************************)
(* get_event_statistics                                                    *)
(***************************************************************************)

\* date.toordinal() and datetime.weekday() (Monday is 0).
ToOrdinal(y, m, d) ==
  LET RECURSIVE before(_)
      before(k) == IF k = 0 THEN 0 ELSE DaysInMonth(y, k) + before(k - 1)
  IN (y - 1) * 365 + ((y - 1) \div 4) - ((y - 1) \div 100) + ((y - 1) \div 400)
     + before(m - 1) + d

Weekday(dt) == (ToOrdinal(dt.y, dt.m, dt.d) + 6) % 7

\* dt - timedelta(days=n) and dt + timedelta(days=1)
RECURSIVE MinusDays(_, _)
MinusDays(dt, n) ==
  IF n = 0 THEN dt
  ELSE IF dt.d > 1 THEN MinusDays([dt EXCEPT !.d = dt.d - 1], n - 1)
  ELSE IF dt.m > 1
  THEN MinusDays([dt EXCEPT !.m = dt.m - 1, !.d = DaysInMonth(dt.y, dt.m - 1)], n - 1)
  ELSE MinusDays([dt EXCEPT !.y = dt.y - 1, !.m = 12, !.d = 31], n - 1)

PlusDay(dt) ==
  IF dt.d < DaysInMonth(dt.y, dt.m) THEN [dt EXCEPT !.d = dt.d + 1]
  ELSE IF dt.m < 12 THEN [dt EXCEPT !.d = 1, !.m = dt.m + 1]
  ELSE [dt EXCEPT !.d = 1, !.m = 1, !.y = dt.y + 1]

\* Lines 380-398, one pass of the loop: the time counters the pass
\* increments, or raised when the pass ends in the except of line 411
\* before it incremented any (the start does not parse, or it parses to
\* an aware datetime, which cannot be compared with now).
TimeBuckets(event, now) ==
  LET parsed      == ParseStored(event.start)
      event_start == parsed.dt
      week_start  == MinusDays(now, Weekday(now))
      month_start == [now EXCEPT !.d = 1]
      today_start == [now EXCEPT !.h = 0, !.mi = 0, !.s = 0, !.us = 0]
      today_end   == PlusDay(today_start)
  IN IF ~parsed.ok \/ event_start.tz # << >> THEN [raised |-> TRUE, buckets |-> {}]
     ELSE [raised  |-> FALSE,
           buckets |->
             (IF DateTimeLess(now, event_start) THEN {"upcoming"} ELSE {"past"})
             \cup (IF ~DateTimeLess(event_start, today_start)
                      /\ DateTimeLess(event_start, today_end)
                   THEN {"today"} ELSE {})
             \cup (IF ~DateTimeLess(event_start, week_start) THEN {"this_week"} ELSE {})
             \cup (IF ~DateTimeLess(event_start, month_start) THEN {"this_month"} ELSE {})]

\* get_event_statistics(), lines 358-414, on the events evs at now: the
\* counters after the loop.  by_calendar, by_category and by_status are
\* functions from the keys seen to their counts.
RECURSIVE get_event_statistics(_, _)
get_event_statistics(evs, now) ==
  IF evs = << >>
  THEN [total |-> 0, upcoming |-> 0, past |-> 0, today |-> 0, this_week |-> 0,
        this_month |-> 0, by_calendar |-> << >>, by_category |-> << >>,
        by_status |-> << >>]
  ELSE
    LET stats == get_event_statistics(SubSeq(evs, 1, Len(evs) - 1), now)
        event == evs[Len(evs)]
        pass  == TimeBuckets(event, now)
        inc(b) == IF b \in pass.buckets THEN 1 ELSE 0
        count(by, key) ==
          IF \E i \in 1..Len(by) : by[i].key = key
          THEN [i \in 1..Len(by) |->
                  IF by[i].key = key THEN [by[i] EXCEPT !.n = by[i].n + 1] ELSE by[i]]
          ELSE Append(by, [key |-> key, n |-> 1])
    IN IF pass.raised THEN [stats EXCEPT !.total = stats.total + 1]
       ELSE [total       |-> stats.total + 1,
             upcoming    |-> stats.upcoming + inc("upcoming"),
             past        |-> stats.past + inc("past"),
             today       |-> stats.today + inc("today"),
             this_week   |-> stats.this_week + inc("this_week"),
             this_month  |-> stats.this_month + inc("this_month"),
             by_calendar |-> count(stats.by_calendar, event.calendar_email),
             by_category |-> count(stats.by_category, event.category),
             by_status   |-> count(stats.by_status, event.status)]

(***************************************************************************)
(* The footer                                                              *)
(***************************************************************************)

\* Lines 964-967, the "Upcoming Events" metric: the list comprehension has
\* no try around it, so a start that fromisoformat rejects (ValueError), or
\* that parses to an aware datetime (TypeError on the comparison with
\* now), ends the script run with an uncaught exception.
upcoming_count(evs, now) ==
  IF \E i \in 1..Len(evs) :
       ~ParseStored(evs[i].start).ok \/ ParseStored(evs[i].start).dt.tz # << >>
  THEN [raised |-> TRUE, count |-> 0]
  ELSE [raised |-> FALSE,
        count  |-> Cardinality({i \in 1..Len(evs) :
                                  DateTimeLess(now, ParseStored(evs[i].start).dt)})]

(***************************************************************************)
(* The edit form on imported events, with every entered date and time, and *)
(* the deletion of the calendar of the selected event                      *)
(***************************************************************************)

NextEdit ==
  \/ ImportRun({DocItems, DocList}, MaxEvents)
  \/ EditRun({}, WhenInputs, {})
  \/ \E email \in CalendarKeys(calendars) : DeleteCalendar(email)

SpecEdit == Init /\ [][NextEdit]_vars

(***************************************************************************)
(* Properties                                                              *)
(***************************************************************************)

\* The owners of the stored events.
Owners == {events[i].calendar_email : i \in 1..Len(events)}

\* seq without its i-th element.
RemoveAt(seq, i) == SubSeq(seq, 1, i - 1) \o SubSeq(seq, i + 1, Len(seq))

\* The step is a script run that reported op (the clock does not move
\* during a run).
Ran(ops) == result'.op \in ops /\ clock' = clock

\* C1: in every reachable state the calendar_email of every stored event is
\* a key of calendars.
C1_OwnerIsCalendar == Owners \subseteq CalendarKeys(calendars)

\* C2: a delete_event of an id the store holds removes exactly one record,
\* the one with that id, and leaves every other record as it was.
C2_DeleteRemovesOne ==
  [][(Ran({"delete_event"}) /\ \E i \in 1..Len(events) : events[i].id = result'.arg)
       => \E i \in 1..Len(events) :
            /\ events[i].id = result'.arg
            /\ events' = RemoveAt(events, i)]_vars

\* C3: in every reachable state no two stored events have the same id.
C3_IdsUnique ==
  \A i, j \in 1..Len(events) : events[i].id = events[j].id => i = j

\* The chronological order of two stored timestamps.
Before(start, end) ==
  /\ FromIsoFormat(start).ok
  /\ FromIsoFormat(end).ok
  /\ DateTimeLess(FromIsoFormat(start).dt, FromIsoFormat(end).dt)

\* C4: a create (from the add form or from Duplicate) whose end is not
\* after its start reports failure and leaves events, calendars,
\* active_calendar and last_backup as they were; a create that reports
\* success appends exactly one event, whose end is after its start.
C4_CreateValidates ==
  [][Ran({"add_event", "duplicate"}) =>
       /\ \A when \in WhenInputs, title \in ValidTitleInputs, color \in ColorInputs,
             category \in CategoryInputs, event_calendar \in CalendarKeys(calendars) :
            (/\ ~DateTimeLess(Combine(when.start_date, when.start_time),
                              Combine(when.end_date, when.end_time))
             /\ AddEvent(title, when.start_date, when.start_time, when.end_date,
                         when.end_time, << >>, << >>, color, category,
                         event_calendar))
            => ~result'.ok
       /\ IF result'.ok
          THEN /\ Len(events') = Len(events) + 1
               /\ SubSeq(events', 1, Len(events)) = events
               /\ Before(events'[Len(events')].start, events'[Len(events')].end)
          ELSE /\ events' = events
               /\ calendars' = calendars
               /\ active_calendar' = active_calendar
               /\ last_backup' = last_backup]_vars

\* A create has just been rejected in a session that holds events and a
\* backup time.
C4_Witness ==
  /\ result = Outcome("add_event", FALSE, << >>)
  /\ events # << >>
  /\ last_backup # << >>

\* C5: deleting calendar C removes the events of C and no other event, the
\* remaining events keep their order and contents, and C is no longer a key
\* of calendars.
C5_DeleteCalendarCascades ==
  [][\A email \in CalendarKeys(calendars) :
       (Ran({"delete_calendar"}) /\ result'.ok /\ result'.arg = email) =>
         /\ email \notin CalendarKeys(calendars')
         /\ \A i \in 1..Len(events') : events'[i].calendar_email # email
         /\ \E f \in [1..Len(events') -> 1..Len(events)] :
              /\ \A i \in 1..Len(events') : events'[i] = events[f[i]]
              /\ \A i, j \in 1..Len(events') : i < j => f[i] < f[j]
              /\ \A k \in 1..Len(events) :
                   events[k].calendar_email # email
                     => \E i \in 1..Len(events') : f[i] = k]_vars

\* A calendar has just been deleted and two events remain.
C5_Witness ==
  /\ result.op = "delete_calendar"
  /\ result.ok
  /\ Len(events) = 2

\* C6: in every reachable state active_calendar is a key of calendars.
C6_ActiveIsCalendar == active_calendar \in CalendarKeys(calendars)

\* A calendar has just been deleted, and the calendar added last is gone.
C6_Witness ==
  /\ result = Outcome("delete_calendar", TRUE, TeamEmail)
  /\ active_calendar = DefaultEmail
  /\ events # << >>

\* C7: calendars is never empty and always holds the default calendar; a
\* request to delete the only calendar reports failure and changes nothing.
C7_DefaultCalendarStays ==
  [][/\ calendars # << >> /\ DefaultEmail \in CalendarKeys(calendars)
     /\ calendars' # << >> /\ DefaultEmail \in CalendarKeys(calendars')
     /\ (Ran({"delete_calendar"}) /\ Len(calendars) = 1) =>
          /\ ~result'.ok
          /\ UNCHANGED << events, selected_event, calendars, active_calendar,
                          last_backup >>]_vars

\* The deletion of the only calendar has just been refused, with events in
\* the store.
C7_Witness ==
  /\ result = Outcome("delete_calendar", FALSE, DefaultEmail)
  /\ Len(calendars) = 1
  /\ events # << >>

\* C8: an Add Calendar with an email that fails validate_email, or that is
\* already a key of calendars, reports failure and leaves calendars and
\* active_calendar as they were.
C8_AddCalendarRejects ==
  [][\A new_email \in EmailInputs, new_name \in NameInputs :
       (/\ ~validate_email(new_email) \/ new_email \in CalendarKeys(calendars)
        /\ AddCalendar(new_email, new_name))
       => /\ ~result'.ok
          /\ calendars' = calendars
          /\ active_calendar' = active_calendar]_vars

\* The fields of an event that an export followed by an import is to keep.
Listed(e) ==
  << e.title, e.start, e.end, e.description, e.location, e.category, e.color >>

\* C9: for every export of the store, the import of the export yields, item
\* by item, the title, start, end, description, location, category and
\* color of the exported events.
C9_ExportImportRoundTrip ==
  \A c \in {<< >>} \cup CalendarKeys(calendars) :
    LET exported == IF c = << >> THEN events
                    ELSE SelectSeq(events, LAMBDA e : e.calendar_email = c)
        loaded   == load_events_from_json(export_events_to_json(c, active_calendar),
                                          Now, SeenIds)
    IN /\ ~loaded.fatal
       /\ Len(loaded.events) = Len(exported)
       /\ \A i \in 1..Len(exported) : Listed(loaded.events[i]) = Listed(exported[i])

\* C10: an import that fails as a whole (json.load raises, or anything
\* outside the loop over the records does) leaves events, calendars and
\* active_calendar as they were.
C10_FailedImportChangesNothing ==
  [][(Ran({"import"}) /\ ~result'.ok) =>
       /\ events' = events
       /\ calendars' = calendars
       /\ active_calendar' = active_calendar]_vars

\* An import has just failed in a session with events, two calendars and
\* the second one active.
C10_Witness ==
  /\ result = Outcome("import", FALSE, << >>)
  /\ events # << >>
  /\ active_calendar = TeamEmail

\* The start of RecordSoon as the import stores it.
SoonStart == << "s", "o", "o", "n", "T", "0", "0", ":", "0", "0", ":", "0", "0" >>

\* C11: an import skips exactly the records that fail normalization, and
\* appends the normalization of every other record, in the order of the
\* document.
C11_ImportSkipsOnlyFailing ==
  [][\A doc \in ImportDocuments :
       (/\ Ran({"import"}) /\ result'.ok
        /\ ImportEvents(doc))
       => LET raw  == SelectEvents(doc.content).events
              info == extract_calendar_info_from_json(doc.content)
              one(k) == NormalizeEvent(raw[k], info.email.v, Now, << >>)
              good == {k \in 1..Len(raw) : ~one(k).skipped}
              n    == Len(events') - Len(events)
          IN /\ n = Cardinality(good)
             /\ SubSeq(events', 1, Len(events)) = events
             /\ \E f \in [1..n -> good] :
                  /\ \A i, j \in 1..n : i < j => f[i] < f[j]
                  /\ \A i \in 1..n :
                       /\ Listed(events'[Len(events) + i]) = Listed(one(f[i]).event)
                       /\ ~one(f[i]).fresh
                            => events'[Len(events) + i] =  one(f[i]).event]_vars

\* The import of DocMixed has just stored its two records that are objects.
C11_Witness ==
  /\ result = Outcome("import", TRUE, << >>)
  /\ Len(events) >= 2
  /\ events[Len(events) - 1].id = << "p", "1" >>
  /\ events[Len(events)].start = SoonStart

\* C12: extract_calendar_info_from_json returns for every parsed document
\* without raising, and the e-mail it returns passes validate_email.
C12_ExtractCalendarInfoTotal ==
  [][\A doc \in ImportDocuments :
       (doc.valid /\ ImportEvents(doc))
       => LET info == extract_calendar_info_from_json(doc.content)
          IN /\ ~info.raised
             /\ info.email.t = "str"
             /\ validate_email(info.email.v)]_vars

\* now = 2024-06-15T12:00:00
ExampleNow ==
  [y |-> 2024, m |-> 6, d |-> 15, h |-> 12, mi |-> 0, s |-> 0, us |-> 0, tz |-> << >>]

\* The events among evs of which the statistics at now count the start,
\* and that lie in month mo of now's year.
InMonth(evs, now, mo) ==
  {i \in 1..Len(evs) :
     /\ ParseStored(evs[i].start).ok
     /\ ParseStored(evs[i].start).dt.tz = << >>
     /\ ParseStored(evs[i].start).dt.y = now.y
     /\ ParseStored(evs[i].start).dt.m = mo}

\* The time counters of the event among evs that starts at the text start.
PlacedAt(evs, start, now) ==
  UNION {TimeBuckets(evs[i], now).buckets : i \in {k \in 1..Len(evs) : evs[k].start = start}}

\* C13: with now = 2024-06-15T12:00:00 the event of 06-10 is past and not
\* this_week, the event of 06-14 is this_week, the event of 06-15T08:00 is
\* today, this_week and past, and the event of 07-01 is not this_month; an
\* event that starts in a month after that of now is never counted in
\* this_month; and every counter is the number of events placed in it.
C13_StatisticsBuckets ==
  LET stats == get_event_statistics(events, Now)
      placed(b) == Cardinality({i \in 1..Len(events) :
                                  b \in TimeBuckets(events[i], Now).buckets})
      has(start) == \E i \in 1..Len(events) : events[i].start = start
      monday  == << "2", "0", "2", "4", "-", "0", "6", "-", "1", "0", "T", "0", "0", ":", "0", "0", ":", "0", "0" >>
      friday  == << "2", "0", "2", "4", "-", "0", "6", "-", "1", "4", "T", "0", "0", ":", "0", "0", ":", "0", "0" >>
      morning == << "2", "0", "2", "4", "-", "0", "6", "-", "1", "5", "T", "0", "8", ":", "0", "0", ":", "0", "0" >>
      july    == << "2", "0", "2", "4", "-", "0", "7", "-", "0", "1", "T", "0", "0", ":", "0", "0", ":", "0", "0" >>
  IN /\ has(monday) => /\ "past" \in PlacedAt(events, monday, ExampleNow)
                       /\ "this_week" \notin PlacedAt(events, monday, ExampleNow)
     /\ has(friday) => "this_week" \in PlacedAt(events, friday, ExampleNow)
     /\ has(morning) =>
          /\ {"today", "this_week", "past"} \subseteq PlacedAt(events, morning, ExampleNow)
          /\ "upcoming" \notin PlacedAt(events, morning, ExampleNow)
     /\ has(july) => "this_month" \notin PlacedAt(events, july, ExampleNow)
     /\ \A mo \in (Now.m + 1)..12 : \A i \in InMonth(events, Now, mo) :
          "this_month" \notin TimeBuckets(events[i], Now).buckets
     /\ stats.today = placed("today")
     /\ stats.this_week = placed("this_week")
     /\ stats.past = placed("past")
     /\ stats.upcoming = placed("upcoming")

\* C14: the statistics count every stored event in total; an event whose
\* start does not parse is in none of the time counters; and upcoming +
\* past is the number of events whose start parses.
C14_StatisticsRobust ==
  LET stats  == get_event_statistics(events, Now)
      parses == {i \in 1..Len(events) : ParseStored(events[i].start).ok}
  IN /\ stats.total = Len(events)
     /\ \A i \in 1..Len(events) :
          i \notin parses => TimeBuckets(events[i], Now).buckets = {}
     /\ \A i \in parses :
          Cardinality(TimeBuckets(events[i], Now).buckets \cap {"upcoming", "past"}) = 1
     /\ stats.upcoming + stats.past = Cardinality(parses)

\* C15: in every reachable state the render pass of a script run
\* completes: the statistics are computed over the whole store, and the
\* footer computes its count of upcoming events without raising.
C15_RenderCompletes ==
  /\ get_event_statistics(events, Now).total = Len(events)
  /\ ~upcoming_count(events, Now).raised

\* C16: an update or a delete of an id that no event of the store carries
\* reports failure and leaves events as it was; an update whose end is
\* not after its start reports failure and leaves events as it was,
\* whether or not the id is in the store.
C16_MissingIdOrBadEndFails ==
  [][/\ selected_event # << >> =>
          LET event_id == selected_event[1].id
              missing  == \A i \in 1..Len(events) : events[i].id # event_id
          IN /\ \A form \in EditForms(selected_event[1], Now, {}, WhenInputs, {}) :
                  (/\ UpdateSubmitted(form)
                   /\ \/ missing
                      \/ ~DateTimeLess(Combine(form.start_date, form.start_time),
                                       Combine(form.end_date, form.end_time)))
                  => /\ result' = Outcome("update_event", FALSE, << >>)
                     /\ events' = events
             /\ (DeleteSubmitted /\ missing)
                  => /\ result' = Outcome("delete_event", FALSE, event_id)
                     /\ events' = events]_vars

\* An update has just been refused for an id that is not in the store,
\* which holds another event.
C16_Witness ==
  /\ result = Outcome("update_event", FALSE, << >>)
  /\ selected_event # << >>
  /\ events # << >>
  /\ \A i \in 1..Len(events) : events[i].id # selected_event[1].id

\* C17: Duplicate, pressed on the edit form of stored event E with the
\* shown values left as they are, appends exactly one event: its id was
\* not in the store, its title is E's title with the copy suffix, and its
\* calendar_email, status, attendees, recurrence, start, end, description,
\* location, color and category are E's; the events already stored,
\* E among them, stay as they were.
C17_DuplicateCopies ==
  [][(/\ selected_event # << >>
      /\ \E i \in 1..Len(events) : events[i] = selected_event[1]
      /\ DuplicateSubmitted(EditFormDefaults(selected_event[1], Now)))
     => LET E    == selected_event[1]
            copy == events'[Len(events')]
        IN /\ Len(events') = Len(events) + 1
           /\ SubSeq(events', 1, Len(events)) = events
           /\ \A i \in 1..Len(events) : events[i].id # copy.id
           /\ copy.title = E.title \o CopySuffix
           /\ copy.calendar_email = E.calendar_email
           /\ copy.status = E.status
           /\ copy.attendees = E.attendees
           /\ copy.recurrence = E.recurrence
           /\ copy.start = E.start
           /\ copy.end = E.end
           /\ copy.description = E.description
           /\ copy.location = E.location
           /\ copy.color = E.color
           /\ copy.category = E.category]_vars

\* A timestamp text that ends with the marker "Z" or with a numeric
\* offset from UTC.
HasZoneSuffix(text) ==
  \/ text # << >> /\ text[Len(text)] = "Z"
  \/ Len(text) >= 6 /\ IsIsoOffset(SubSeq(text, Len(text) - 5, Len(text)))

\* C18: in every reachable state the start and the end of every stored
\* event have a time component and no timezone suffix.
C18_StoredTimesCanonical ==
  \A i \in 1..Len(events) :
    /\ IsIn("T", events[i].start) /\ ~HasZoneSuffix(events[i].start)
    /\ IsIn("T", events[i].end) /\ ~HasZoneSuffix(events[i].end)

\* C19: in every reachable state every stored event has a title that is
\* not empty.
C19_TitlesNotEmpty ==
  \A i \in 1..Len(events) : events[i].title # << >>

\* The texts typed in the search box.
Paris == << "P", "a", "r", "i", "s" >>

SearchTerms == {<< >>, Paris, << "P", "A", "R", "I", "S" >>, << "s", "y", "n", "c" >>}

\* term occurs in text when the case of the letters is ignored.
Matches(term, text) ==
  \E k \in 0..(Len(text) - Len(term)) :
    \A j \in 1..Len(term) : LowerChar(text[k + j]) = LowerChar(term[j])

\* The event passes every supplied filter; << >> is a filter that is not
\* supplied.
Passes(e, calendar_filter, category_filter, search_term) ==
  /\ calendar_filter = << >> \/ e.calendar_email = calendar_filter
  /\ category_filter = << >> \/ e.category = category_filter
  /\ \/ search_term = << >>
     \/ Matches(search_term, e.title)
     \/ Matches(search_term, e.description)
     \/ Matches(search_term, e.location)

\* C20: in every reachable state, the calendar view built for a calendar
\* filter and a search term holds exactly the stored events that pass
\* both, in the order of the store, and the list view built for a
\* calendar filter and a category filter holds exactly the stored events
\* that pass both.
C20_ProjectionFilters ==
  /\ \A calendar_filter \in {<< >>} \cup CalendarKeys(calendars), search_term \in SearchTerms :
       LET view   == format_events_for_calendar(events, calendar_filter, search_term)
           passed == SelectSeq(events, LAMBDA e : Passes(e, calendar_filter, << >>, search_term))
       IN /\ Len(view) = Len(passed)
          /\ \A i \in 1..Len(view) :
               /\ view[i].id = passed[i].id
               /\ view[i].title = passed[i].title
               /\ view[i].start = passed[i].start
  /\ \A filter_calendar \in {All} \cup CalendarKeys(calendars),
        filter_category \in {All} \cup {Categories[c] : c \in 1..Len(Categories)} :
       LET page   == ListPage(filter_calendar, filter_category, 1)
           passed == SelectSeq(events, LAMBDA e :
                       Passes(e, IF filter_calendar = All THEN << >> ELSE filter_calendar,
                              IF filter_category = All THEN << >> ELSE filter_category, << >>))
       IN /\ Len(page) = Len(passed)
          /\ \A i \in 1..Len(events) :
               (\E k \in 1..Len(page) : page[k] = events[i])
               <=> (\E k \in 1..Len(passed) : passed[k] = events[i])

\* The store holds an event whose location alone matches "PARIS", and an
\* event of another calendar; the calendar view of the active calendar for
\* that search holds the first and nothing else.
C20_Witness ==
  /\ Len(calendars) > 1
  /\ \E i, j \in 1..Len(events) :
       /\ events[i].location = Paris
       /\ ~Matches(Paris, events[i].title) /\ ~Matches(Paris, events[i].description)
       /\ events[i].calendar_email = active_calendar
       /\ events[j].calendar_email # active_calendar
       /\ LET view == format_events_for_calendar(events, active_calendar, << "P", "A", "R", "I", "S" >>)
          IN Len(view) = 1 /\ view[1].id = events[i].id

\* C21: an update_event that reports success changes one event that has
\* the id, and of it only title, start, end, description, location, color,
\* category and updated, which becomes the time of the update; its id,
\* calendar_email, created, status, attendees and recurrence, every other
\* event, the number and the order of the events, the calendars and the
\* active calendar stay as they were.
C21_UpdateFrame ==
  [][(Ran({"update_event"}) /\ result'.ok) =>
       /\ Len(events') = Len(events)
       /\ calendars' = calendars
       /\ active_calendar' = active_calendar
       /\ \E i \in 1..Len(events) :
            /\ events[i].id = selected_event[1].id
            /\ \A j \in 1..Len(events) : j # i => events'[j] = events[j]
            /\ DOMAIN events'[i] = DOMAIN events[i]
            /\ events'[i].id = events[i].id
            /\ events'[i].calendar_email = events[i].calendar_email
            /\ events'[i].created = events[i].created
            /\ events'[i].status = events[i].status
            /\ events'[i].attendees = events[i].attendees
            /\ events'[i].recurrence = events[i].recurrence
            /\ events'[i].updated = IsoFormat(Now)]_vars

\* An update has just succeeded in a store where two events carry the
\* same id: the first has new times, the second is as it was imported.
C21_Witness ==
  /\ result = Outcome("update_event", TRUE, << >>)
  /\ Len(events) = 2
  /\ events[1].id = events[2].id
  /\ events[1].start # events[2].start

\* C22: in every reachable state a selected event carries the id of an
\* event of the store.
C22_SelectionIsStored ==
  selected_event # << >> =>
    \E i \in 1..Len(events) : events[i].id = selected_event[1].id

====
